---- MODULE Spec2Model ----
(***************************************************************************)
(* Sanctions screening (src/ofac.py): snapshot directories, the index      *)
(* build over the raw list files of one snapshot (_index_snapshot), the    *)
(* similarity scorer (_normalize, _token_set_similarity) and the screening *)
(* engine (screen_company).                                                *)
(*                                                                         *)
(* Text is modelled as a sequence of one-character strings, so that        *)
(* normalisation, concatenation and comparison are computed on characters. *)
(* Scores are exact rationals [num, den] in lowest terms (the code uses    *)
(* binary floating point).                                                 *)
(***************************************************************************)
EXTENDS Integers, Sequences, FiniteSets, TLC

(***************************************************************************)
(* Text helpers                                                            *)
(***************************************************************************)
RECURSIVE Concat(_)
\* "".join(parts): the concatenation of a sequence of texts
Concat(parts) ==
    IF parts = <<>> THEN <<>> ELSE Head(parts) \o Concat(Tail(parts))

RECURSIVE Join(_, _)
\* sep.join(parts)
Join(sep, parts) ==
    IF parts = <<>> THEN <<>>
    ELSE IF Len(parts) = 1 THEN Head(parts)
    ELSE Head(parts) \o sep \o Join(sep, Tail(parts))

\* the characters str.strip() removes (of the modelled alphabet)
IsSpace(c) == c = " "

RECURSIVE LStrip(_)
LStrip(s) ==
    IF s = <<>> THEN <<>>
    ELSE IF IsSpace(Head(s)) THEN LStrip(Tail(s)) ELSE s

RECURSIVE RStrip(_)
RStrip(s) ==
    IF s = <<>> THEN <<>>
    ELSE IF IsSpace(s[Len(s)]) THEN RStrip(SubSeq(s, 1, Len(s) - 1)) ELSE s

\* str.strip()
Strip(s) == RStrip(LStrip(s))

\* s[:n] for n >= 0
Take(s, n) == SubSeq(s, 1, IF n < Len(s) THEN n ELSE Len(s))

\* the set of elements of a sequence
Range(s) == {s[i] : i \in 1..Len(s)}

\* x in list
InSeq(x, s) == \E i \in 1..Len(s) : s[i] = x

(***************************************************************************)
(* _normalize                                                              *)
(***************************************************************************)
UpperLetters ==
    <<"A", "B", "C", "D", "E", "F", "G", "H", "I", "J", "K", "L", "M",
      "N", "O", "P", "Q", "R", "S", "T", "U", "V", "W", "X", "Y", "Z">>

LowerLetters ==
    <<"a", "b", "c", "d", "e", "f", "g", "h", "i", "j", "k", "l", "m",
      "n", "o", "p", "q", "r", "s", "t", "u", "v", "w", "x", "y", "z">>

\* str.lower() on one character
Lower(c) ==
    IF \E i \in 1..Len(UpperLetters) : UpperLetters[i] = c
    THEN LowerLetters[CHOOSE i \in 1..Len(UpperLetters) : UpperLetters[i] = c]
    ELSE c

\* the class [a-z0-9] of the regular expression
IsAlnum(c) ==
    c \in {"a", "b", "c", "d", "e", "f", "g", "h", "i", "j", "k", "l", "m",
           "n", "o", "p", "q", "r", "s", "t", "u", "v", "w", "x", "y", "z",
           "0", "1", "2", "3", "4", "5", "6", "7", "8", "9"}

RECURSIVE MapLower(_)
MapLower(s) ==
    IF s = <<>> THEN <<>> ELSE <<Lower(Head(s))>> \o MapLower(Tail(s))

RECURSIVE ReplaceAmp(_)
\* s.replace("&", " and ")
ReplaceAmp(s) ==
    IF s = <<>> THEN <<>>
    ELSE (IF Head(s) = "&" THEN <<" ", "a", "n", "d", " ">> ELSE <<Head(s)>>)
         \o ReplaceAmp(Tail(s))

RECURSIVE CollapseNonAlnum(_, _)
\* re.sub(r"[^a-z0-9]+", " ", s); inRun: the previous character was replaced
CollapseNonAlnum(s, inRun) ==
    IF s = <<>> THEN <<>>
    ELSE IF IsAlnum(Head(s)) THEN <<Head(s)>> \o CollapseNonAlnum(Tail(s), FALSE)
    ELSE (IF inRun THEN <<>> ELSE <<" ">>) \o CollapseNonAlnum(Tail(s), TRUE)

\* _normalize (NFKC is the identity on the modelled ASCII alphabet); after
\* CollapseNonAlnum no two spaces are adjacent, so \s+ -> " " changes nothing
\* and strip() removes at most one space at each end
Normalize(s) == Strip(CollapseNonAlnum(ReplaceAmp(MapLower(s)), FALSE))

(***************************************************************************)
(* _token_set_similarity                                                   *)
(***************************************************************************)
RECURSIVE SplitTokens(_, _)
\* set(s.split()) with cur the token being read
SplitTokens(s, cur) ==
    IF s = <<>> THEN (IF cur = <<>> THEN {} ELSE {cur})
    ELSE IF IsSpace(Head(s))
         THEN (IF cur = <<>> THEN {} ELSE {cur}) \cup SplitTokens(Tail(s), <<>>)
         ELSE SplitTokens(Tail(s), Append(cur, Head(s)))

TokenSet(s) == SplitTokens(s, <<>>)

RECURSIVE RunLen(_, _, _, _, _, _)
\* length of the common run of a and b that starts at a[i], b[j] (1-based),
\* inside a[..ahi], b[..bhi]
RunLen(a, b, i, j, ahi, bhi) ==
    IF i > ahi \/ j > bhi THEN 0
    ELSE IF a[i] # b[j] THEN 0
    ELSE 1 + RunLen(a, b, i + 1, j + 1, ahi, bhi)

\* difflib.SequenceMatcher.find_longest_match on a[alo..ahi], b[blo..bhi]
\* (1-based, inclusive; no junk: autojunk needs 200 characters): the longest
\* common block, of those the one starting earliest in a, of those the one
\* starting earliest in b. <<i, j, k>> with k = 0 when there is none.
FindLongestMatch(a, b, alo, ahi, blo, bhi) ==
    LET cand == {<<i, j, RunLen(a, b, i, j, ahi, bhi)>> : i \in alo..ahi, j \in blo..bhi}
        pos  == {c \in cand : c[3] > 0}
    IN  IF pos = {} THEN <<alo, blo, 0>>
        ELSE LET k  == CHOOSE n \in {c[3] : c \in pos} : \A c \in pos : c[3] <= n
                 lk == {c \in pos : c[3] = k}
                 i  == CHOOSE n \in {c[1] : c \in lk} : \A c \in lk : n <= c[1]
                 li == {c \in lk : c[1] = i}
                 j  == CHOOSE n \in {c[2] : c \in li} : \A c \in li : n <= c[2]
             IN  <<i, j, k>>

RECURSIVE MatchingChars(_, _, _, _, _, _)
\* sum of the sizes of SequenceMatcher.get_matching_blocks
MatchingChars(a, b, alo, ahi, blo, bhi) ==
    IF alo > ahi \/ blo > bhi THEN 0
    ELSE LET m == FindLongestMatch(a, b, alo, ahi, blo, bhi)
         IN  IF m[3] = 0 THEN 0
             ELSE m[3]
                  + MatchingChars(a, b, alo, m[1] - 1, blo, m[2] - 1)
                  + MatchingChars(a, b, m[1] + m[3], ahi, m[2] + m[3], bhi)

RECURSIVE GCD(_, _)
GCD(m, n) == IF n = 0 THEN m ELSE GCD(n, m % n)

\* the rational n/d (d > 0, n >= 0) in lowest terms
Rat(n, d) == LET g == GCD(n, d) IN [num |-> n \div g, den |-> d \div g]

Zero == Rat(0, 1)

\* comparisons of rationals
RGE(x, y) == x.num * y.den >= y.num * x.den
RGT(x, y) == x.num * y.den > y.num * x.den

\* a similarity without the whole-string term: 100 * 0.80 * |A & B| / |A | B|
TokenOverlapOnly(a, b) ==
    LET a_n == Normalize(a)
        b_n == Normalize(b)
    IN  IF a_n = <<>> \/ b_n = <<>> THEN Zero
        ELSE Rat(80 * Cardinality(TokenSet(a_n) \cap TokenSet(b_n)),
                 Cardinality(TokenSet(a_n) \cup TokenSet(b_n)))

\* _token_set_similarity(a, b):
\*   100 * (0.80 * |A & B| / |A | B| + 0.20 * 2 * M / (len(a_n) + len(b_n)))
\* the clamp to [0, 100] never acts: |A & B| <= |A | B| and 2 * M <= T
TokenSetSimilarity(a, b) ==
    LET a_n == Normalize(a)
        b_n == Normalize(b)
    IN  IF a_n = <<>> \/ b_n = <<>> THEN Zero
        ELSE LET a_t   == TokenSet(a_n)
                 b_t   == TokenSet(b_n)
                 inter == Cardinality(a_t \cap b_t)
                 union == Cardinality(a_t \cup b_t)
                 m     == MatchingChars(a_n, b_n, 1, Len(a_n), 1, Len(b_n))
                 t     == Len(a_n) + Len(b_n)
             IN  Rat(80 * inter * t + 40 * m * union, union * t)

(***************************************************************************)
(* Character codes: sorted() and the digest read code points               *)
(***************************************************************************)
\* the characters with codes 32..122 in code order; a character the modelled
\* texts never contain is written by its code (x21 for "!")
Ascii ==
    <<
      " ", "x21", "x22", "x23", "x24", "x25", "&", "x27", "x28", "x29", "x2a", "+",
      ",", "-", ".", "x2f", "0", "1", "2", "3", "4", "5", "6", "7",
      "8", "9", ":", ";", "x3c", "x3d", "x3e", "x3f", "x40", "A", "B", "C",
      "D", "E", "F", "G", "H", "I", "J", "K", "L", "M", "N", "O",
      "P", "Q", "R", "S", "T", "U", "V", "W", "X", "Y", "Z", "x5b",
      "x5c", "x5d", "x5e", "x5f", "x60", "a", "b", "c", "d", "e", "f", "g",
      "h", "i", "j", "k", "l", "m", "n", "o", "p", "q", "r", "s",
      "t", "u", "v", "w", "x", "y", "z">>

\* ord(c)
CharCode(c) == 31 + (CHOOSE i \in 1..Len(Ascii) : Ascii[i] = c)

RECURSIVE StrLess(_, _)
\* a < b for str: lexicographic by code point
StrLess(a, b) ==
    IF b = <<>> THEN FALSE
    ELSE IF a = <<>> THEN TRUE
    ELSE IF Head(a) = Head(b) THEN StrLess(Tail(a), Tail(b))
    ELSE CharCode(Head(a)) < CharCode(Head(b))

RECURSIVE SortedStrs(_)
\* sorted(set_of_str)
SortedStrs(S) ==
    IF S = {} THEN <<>>
    ELSE LET m == CHOOSE x \in S : \A y \in S : y = x \/ StrLess(x, y)
         IN  <<m>> \o SortedStrs(S \ {m})

HexDigits ==
    <<"0", "1", "2", "3", "4", "5", "6", "7", "8", "9", "a", "b", "c", "d", "e", "f">>

RECURSIVE PolyHash(_, _)
PolyHash(s, h) ==
    IF s = <<>> THEN h
    ELSE PolyHash(Tail(s), (h * 31 + CharCode(Head(s))) % 67108864)

RECURSIVE HexOf(_, _)
\* n written with exactly k hexadecimal digits
HexOf(n, k) ==
    IF k = 0 THEN <<>> ELSE HexOf(n \div 16, k - 1) \o <<HexDigits[(n % 16) + 1]>>

\* _sha256_bytes(name.encode("utf-8"))[:8]: eight hexadecimal digits that are
\* a function of the exact characters of the text. A polynomial hash stands
\* for SHA-256; it has no collisions on the texts of the modelled inputs.
Sha256Hex8(s) == HexOf(PolyHash(s, 7), 8)

(***************************************************************************)
(* Raw list files of a snapshot                                            *)
(*                                                                         *)
(* A file is absent or a sequence of rows (CSV, spreadsheet) or nodes      *)
(* (XML). A row holds the cells the code reads, as texts, in the order the *)
(* code reads them; a cell the row lacks is the empty text. A bad row is a *)
(* place where the file's parser raises.                                   *)
(*   ids     identifier columns, in the priority order of the code         *)
(*   names   name columns / name parts                                     *)
(*   aliases alias nodes (UN, CA)                                          *)
(*   text    the "aliases" cell (WB)                                       *)
(*   progs   programme columns                                             *)
(*   addr    address columns / nationality values                          *)
(*   address the lower-case "address" column (OFAC)                        *)
(*   code    the "Source List" column (BIS)                                *)
(*   groups  nested nodes: ENTITY_ADDRESS parts (UN), name nodes (CH)      *)
(*   tag     the node name (UN: INDIVIDUAL or ENTITY)                      *)
(***************************************************************************)
BlankRow ==
    [bad |-> FALSE, tag |-> "", ids |-> <<>>, code |-> <<>>, names |-> <<>>,
     aliases |-> <<>>, text |-> <<>>, progs |-> <<>>, addr |-> <<>>,
     address |-> <<>>, groups |-> <<>>]

BadRow == [BlankRow EXCEPT !.bad = TRUE]

Absent == [exists |-> FALSE, rows |-> <<>>]

FileOf(rows) == [exists |-> TRUE, rows |-> rows]

\* the files _index_snapshot reads, in the order it reads them
OfacFiles == <<"CONS_PRIM.CSV", "CONS_ALT.CSV", "CONS_ADD.CSV", "SDN.CSV", "ALT.CSV", "ADD.CSV">>

BisFiles == <<"bis_entity_list.csv", "bis_denied_persons.csv", "bis_unverified.csv", "bis_meu.csv">>

IntlFiles ==
    <<"un_consolidated.xml", "eu_consolidated.csv", "uk_sanctions.csv", "sema_sanctions.xml",
      "au_sanctions.xlsx", "seco_sanctions.xml", "wb_debarred.csv">>

FileNames == Range(OfacFiles) \cup Range(BisFiles) \cup Range(IntlFiles)

\* row.get(column) of the i-th column read: "" when the row has no such cell
Cell(cells, i) == IF i <= Len(cells) THEN cells[i] ELSE <<>>

RECURSIVE FirstTruthy(_)
\* a or b or c ...: the first non-empty value, else none (the empty text)
FirstTruthy(cells) ==
    IF cells = <<>> THEN <<>>
    ELSE IF Head(cells) # <<>> THEN Head(cells) ELSE FirstTruthy(Tail(cells))

RECURSIVE StripAll(_)
StripAll(cells) ==
    IF cells = <<>> THEN <<>> ELSE <<Strip(Head(cells))>> \o StripAll(Tail(cells))

RECURSIVE NonEmpty(_)
\* [v for v in cells if v]
NonEmpty(cells) ==
    IF cells = <<>> THEN <<>>
    ELSE (IF Head(cells) # <<>> THEN <<Head(cells)>> ELSE <<>>) \o NonEmpty(Tail(cells))

RECURSIVE NotSentinel(_)
\* [v for v in cells if v and v != "-0-"]
NotSentinel(cells) ==
    IF cells = <<>> THEN <<>>
    ELSE (IF Head(cells) # <<>> /\ Head(cells) # <<"-", "0", "-">> THEN <<Head(cells)>> ELSE <<>>)
         \o NotSentinel(Tail(cells))

HasBad(rows) == \E i \in 1..Len(rows) : rows[i].bad

RECURSIVE BeforeBad(_)
\* the rows a lazy reader yields before it raises
BeforeBad(rows) ==
    IF rows = <<>> THEN <<>>
    ELSE IF Head(rows).bad THEN <<>> ELSE <<Head(rows)>> \o BeforeBad(Tail(rows))

\* _read_csv_bytes: every row is read before any is used, values stripped;
\* raises where the reader raises or a row has more cells than the header
\* (its key is None and k.strip() fails)
ReadCsvBytes(file) ==
    [raised |-> HasBad(file.rows),
     rows   |-> [i \in 1..Len(file.rows) |->
                    [file.rows[i] EXCEPT !.ids = StripAll(@), !.names = StripAll(@),
                                         !.progs = StripAll(@), !.addr = StripAll(@),
                                         !.code = Strip(@), !.address = Strip(@)]]]

\* _pick_entity_id
PickEntityId(r) == FirstTruthy(r.ids)

\* _pick_name
PickName(r) == FirstTruthy(r.names)

\* _pick_program
PickProgram(r) == FirstTruthy(r.progs)

\* _pick_address: the address columns that are set and not "-0-", joined;
\* else the "address" column
PickAddress(r) ==
    LET parts == NotSentinel(r.addr)
    IN  IF parts # <<>> THEN Join(<<",", " ">>, parts) ELSE r.address

(***************************************************************************)
(* The index: a dict in insertion order, keyed by "source_list:entity_id"  *)
(***************************************************************************)
\* f"{source_list}:{eid}"
KeyOf(source_list, eid) == source_list \o <<":">> \o eid

HasKey(idx, key) == \E i \in 1..Len(idx) : idx[i].key = key

PosOf(idx, key) == CHOOSE i \in 1..Len(idx) : idx[i].key = key

\* _index_snapshot.ensure
Ensure(idx, source_list, eid) ==
    IF HasKey(idx, KeyOf(source_list, eid)) THEN idx
    ELSE Append(idx, [key |-> KeyOf(source_list, eid), source_list |-> source_list,
                      entity_id |-> eid, primary |-> <<>>, aliases |-> <<>>,
                      programs |-> {}, addresses |-> {}])

\* a merge that keeps the first primary name of an entity and drops the rest
AppendPrimaryFirstOnly(idx, key, name, dedupe) ==
    [idx EXCEPT ![PosOf(idx, key)].primary = IF @ # <<>> THEN @ ELSE <<name>>]

\* ent["primary"].append(name), guarded by "name not in" when dedupe
AppendPrimary(idx, key, name, dedupe) ==
    [idx EXCEPT ![PosOf(idx, key)].primary =
        IF dedupe /\ InSeq(name, @) THEN @ ELSE Append(@, name)]

\* ent["aliases"].append(name), guarded by "name not in" when dedupe
AppendAlias(idx, key, name, dedupe) ==
    [idx EXCEPT ![PosOf(idx, key)].aliases =
        IF dedupe /\ InSeq(name, @) THEN @ ELSE Append(@, name)]

RECURSIVE AppendAliases(_, _, _, _)
AppendAliases(idx, key, names, dedupe) ==
    IF names = <<>> THEN idx
    ELSE AppendAliases(AppendAlias(idx, key, Head(names), dedupe), key, Tail(names), dedupe)

\* ent["programs"].add(p) when p is set
AddProgram(idx, key, p) ==
    IF p = <<>> THEN idx ELSE [idx EXCEPT ![PosOf(idx, key)].programs = @ \cup {p}]

\* ent["addresses"].add(a) when a is set
AddAddress(idx, key, a) ==
    IF a = <<>> THEN idx ELSE [idx EXCEPT ![PosOf(idx, key)].addresses = @ \cup {a}]

(***************************************************************************)
(* Source lists, prefixes and markers of the code, as texts                *)
(***************************************************************************)
OFAC_CONS == <<"O", "F", "A", "C", "-", "C", "O", "N", "S">>
OFAC_SDN == <<"O", "F", "A", "C", "-", "S", "D", "N">>
BIS == <<"B", "I", "S">>
UN == <<"U", "N">>
EU == <<"E", "U">>
UK == <<"U", "K">>
CA == <<"C", "A">>
AU == <<"A", "U">>
CH == <<"C", "H">>
WB == <<"W", "B">>
Nan == <<"n", "a", "n">>
CommaSpace == <<",", " ">>
Space == <<" ">>

\* bis_list_codes.get(source_code, f"BIS-{source_code}" if source_code else "BIS")
BisSourceList(source_code) ==
    CASE source_code = <<"E", "L">> -> <<"B", "I", "S", "-", "E", "L">>
      [] source_code = <<"D", "P", "L">> -> <<"B", "I", "S", "-", "D", "P", "L">>
      [] source_code = <<"U", "V", "L">> -> <<"B", "I", "S", "-", "U", "V", "L">>
      [] source_code = <<"M", "E", "U">> -> <<"B", "I", "S", "-", "M", "E", "U">>
      [] OTHER -> IF source_code # <<>> THEN BIS \o <<"-">> \o source_code ELSE BIS

(***************************************************************************)
(* _index_snapshot: one row or node of each source                         *)
(***************************************************************************)
\* str(cell).strip() is missing: an empty cell reads as NaN, printed "nan"
IsNan(v) == v = <<>> \/ v = Nan

\* the name a row gives its entity (none: the row is skipped)
RowName(kind, r) ==
    CASE kind \in {"primary", "alias"} -> PickName(r)
      [] kind = "address" -> <<>>
      [] kind \in {"BIS", "WB"} -> Strip(Cell(r.names, 1))
      [] kind = "UN" -> IF r.tag = "INDIVIDUAL" THEN Join(Space, NonEmpty(StripAll(r.names)))
                        ELSE Strip(Cell(r.names, 1))
      [] kind = "EU" -> IF Strip(Cell(r.names, 1)) # <<>> THEN Strip(Cell(r.names, 1))
                        ELSE Strip(Strip(Cell(r.names, 3)) \o Space \o Strip(Cell(r.names, 2)))
      [] kind = "UK" -> Join(Space, NonEmpty(StripAll(r.names)))
      [] kind = "CA" -> IF Strip(Cell(r.names, 1)) # <<>> THEN Strip(Cell(r.names, 1))
                        ELSE Strip(Strip(Cell(r.names, 2)) \o Space \o Strip(Cell(r.names, 3)))
      [] kind = "AU" -> IF IsNan(Strip(Cell(r.names, 1))) THEN Strip(Cell(r.names, 2))
                        ELSE Strip(Cell(r.names, 1))
      [] kind = "CH" -> <<>>

\* the source_list a row's entity is filed under
RowSourceList(kind, source_list, r) ==
    CASE kind \in {"primary", "alias", "address"} -> source_list
      [] kind = "BIS" -> BisSourceList(Strip(r.code))
      [] kind = "UN" -> UN
      [] kind = "EU" -> EU
      [] kind = "UK" -> UK
      [] kind = "CA" -> CA
      [] kind = "AU" -> AU
      [] kind = "CH" -> CH
      [] kind = "WB" -> WB

\* the entity_id of a row whose name is name: the native identifier, else
\* (BIS) the name, else (CA, AU, WB) the source code and a digest of the name
RowEntityId(kind, r, name) ==
    LET id1 == Strip(Cell(r.ids, 1))
    IN  CASE kind \in {"primary", "alias", "address"} -> PickEntityId(r)
          [] kind = "BIS" -> IF id1 # <<>> THEN id1 ELSE name
          [] kind \in {"UN", "EU", "UK"} -> id1
          [] kind = "CA" -> IF id1 # <<>> THEN id1 ELSE CA \o <<"-">> \o Sha256Hex8(name)
          [] kind = "AU" ->
                LET uid == IF IsNan(id1) THEN Strip(Cell(r.ids, 2)) ELSE id1
                IN  IF IsNan(uid) THEN AU \o <<"-">> \o Sha256Hex8(name) ELSE uid
          [] kind = "CH" -> Cell(r.ids, 1)
          [] kind = "WB" -> IF IsNan(id1) THEN WB \o <<"-">> \o Sha256Hex8(name) ELSE id1

\* the row is passed over ("continue") before ensure is called
RowSkipped(kind, eid, name) ==
    CASE kind \in {"primary", "alias", "UN", "EU", "UK"} -> eid = <<>> \/ name = <<>>
      [] kind \in {"address", "CH"} -> eid = <<>>
      [] kind \in {"BIS", "CA"} -> name = <<>>
      [] kind \in {"AU", "WB"} -> IsNan(name)

\* add_primary, loop body
AddPrimaryRow(idx, source_list, eid, name, r) ==
    LET key == KeyOf(source_list, eid)
    IN  AddProgram(AppendPrimary(Ensure(idx, source_list, eid), key, name, FALSE),
                   key, PickProgram(r))

\* add_aliases, loop body
AddAliasRow(idx, source_list, eid, name) ==
    AppendAlias(Ensure(idx, source_list, eid), KeyOf(source_list, eid), name, FALSE)

\* add_addresses, loop body
AddAddressRow(idx, source_list, eid, r) ==
    AddAddress(Ensure(idx, source_list, eid), KeyOf(source_list, eid), PickAddress(r))

\* the BIS loop body
BisRow(idx, source_list, eid, name, r) ==
    LET key  == KeyOf(source_list, eid)
        lic_req == Strip(Cell(r.progs, 1))
        lic_pol == Strip(Cell(r.progs, 2))
        addr_parts == NotSentinel(StripAll(r.addr))
        i1 == AppendPrimary(Ensure(idx, source_list, eid), key, name, TRUE)
        i2 == AddProgram(i1, key, lic_req)
        i3 == AddProgram(i2, key, IF lic_pol # <<>> THEN <<"P", "o", "l", "i", "c", "y", ":", " ">> \o lic_pol ELSE <<>>)
    IN  AddAddress(i3, key, Join(CommaSpace, addr_parts))

RECURSIVE PrefixAll(_, _)
\* prefix + v.strip() for every v set
PrefixAll(prefix, cells) ==
    IF cells = <<>> THEN {}
    ELSE (IF Head(cells) # <<>> THEN {prefix \o Strip(Head(cells))} ELSE {})
         \cup PrefixAll(prefix, Tail(cells))

RECURSIVE JoinedGroups(_)
\* one ", ".join(addr_parts) for each ENTITY_ADDRESS with a part set
JoinedGroups(groups) ==
    IF groups = <<>> THEN {}
    ELSE (IF NonEmpty(StripAll(Head(groups))) # <<>>
          THEN {Join(CommaSpace, NonEmpty(StripAll(Head(groups))))} ELSE {})
         \cup JoinedGroups(Tail(groups))

\* the UN loop bodies (INDIVIDUAL and ENTITY nodes)
UnRow(idx, dataid, name, r) ==
    LET key  == KeyOf(UN, dataid)
        un_list == Strip(Cell(r.progs, 1))
        i1 == AppendPrimary(Ensure(idx, UN, dataid), key, name, TRUE)
        i2 == AppendAliases(i1, key, NonEmpty(StripAll(r.aliases)), TRUE)
        i3 == AddProgram(i2, key, IF un_list # <<>> THEN <<"U", "N", ":", " ">> \o un_list ELSE <<>>)
        extra == IF r.tag = "INDIVIDUAL" THEN PrefixAll(<<"N", "a", "t", "i", "o", "n", "a", "l", "i", "t", "y", ":", " ">>, r.addr)
                 ELSE JoinedGroups(r.groups)
    IN  [i3 EXCEPT ![PosOf(i3, key)].addresses = @ \cup extra]

\* the EU loop body
EuRow(idx, eid, name, r) ==
    LET key   == KeyOf(EU, eid)
        prog  == Strip(Cell(r.progs, 1))
        i1 == AppendPrimary(Ensure(idx, EU, eid), key, name, TRUE)
        i2 == AddProgram(i1, key, IF prog # <<>> THEN <<"E", "U", ":", " ">> \o prog ELSE <<>>)
    IN  AddAddress(i2, key, Join(CommaSpace, NonEmpty(StripAll(r.addr))))

\* the UK loop body
UkRow(idx, uid, name, r) ==
    LET key  == KeyOf(UK, uid)
        regime == Strip(Cell(r.progs, 1))
        sanc == Strip(Cell(r.progs, 2))
        i1 == AppendPrimary(Ensure(idx, UK, uid), key, name, TRUE)
        i2 == AddProgram(i1, key, IF regime # <<>> THEN <<"U", "K", ":", " ">> \o regime ELSE <<>>)
        i3 == AddProgram(i2, key, sanc)
    IN  AddAddress(i3, key, Join(CommaSpace, NonEmpty(StripAll(r.addr))))

\* the Canada loop body
CaRow(idx, uid, name, r) ==
    LET key  == KeyOf(CA, uid)
        schedule == Strip(Cell(r.progs, 1))
        dob == Strip(Cell(r.addr, 1))
        i1 == AppendPrimary(Ensure(idx, CA, uid), key, name, TRUE)
        i2 == AppendAliases(i1, key, StripAll(NonEmpty(r.aliases)), FALSE)
        i3 == AddProgram(i2, key, IF schedule # <<>> THEN <<"C", "A", ":", " ">> \o schedule ELSE <<>>)
    IN  AddAddress(i3, key, IF dob # <<>> THEN <<"D", "O", "B", ":", " ">> \o dob ELSE <<>>)

\* the Australia loop body
AuRow(idx, uid, name, r) ==
    LET key  == KeyOf(AU, uid)
        prog == Strip(Cell(r.progs, 1))
        citizen == Strip(Cell(r.addr, 1))
        addr == Strip(Cell(r.addr, 2))
        i1 == AppendPrimary(Ensure(idx, AU, uid), key, name, TRUE)
        i2 == AddProgram(i1, key, IF IsNan(prog) THEN <<>> ELSE <<"A", "U", ":", " ">> \o prog)
        i3 == AddAddress(i2, key, IF IsNan(citizen) THEN <<>> ELSE <<"C", "i", "t", "i", "z", "e", "n", "s", "h", "i", "p", ":", " ">> \o citizen)
    IN  AddAddress(i3, key, IF IsNan(addr) THEN <<>> ELSE addr)

RECURSIVE AppendNames(_, _, _)
\* one primary name for each name node of a target, unless empty or present
AppendNames(idx, key, groups) ==
    IF groups = <<>> THEN idx
    ELSE LET fname == Join(Space, NonEmpty(StripAll(Head(groups))))
         IN  AppendNames(IF fname # <<>> THEN AppendPrimary(idx, key, fname, TRUE) ELSE idx,
                         key, Tail(groups))

\* the Switzerland loop body: ensure comes before any name is read
ChRow(idx, eid, r) ==
    AppendNames(Ensure(idx, CH, eid), KeyOf(CH, eid), r.groups)

RECURSIVE SplitOn(_, _, _)
\* s.split(sep) for a one-character sep, with cur the piece being read
SplitOn(s, sep, cur) ==
    IF s = <<>> THEN <<cur>>
    ELSE IF Head(s) = sep THEN <<cur>> \o SplitOn(Tail(s), sep, <<>>)
    ELSE SplitOn(Tail(s), sep, Append(cur, Head(s)))

\* the World Bank loop body
WbRow(idx, uid, name, r) ==
    LET key  == KeyOf(WB, uid)
        aliases == Strip(r.text)
        countries == Strip(Cell(r.addr, 1))
        i1 == AppendPrimary(Ensure(idx, WB, uid), key, name, TRUE)
        i2 == IF IsNan(aliases) THEN i1
              ELSE AppendAliases(i1, key, StripAll(SplitOn(aliases, ";", <<>>)), FALSE)
        i3 == AddAddress(i2, key, IF IsNan(countries) THEN <<>> ELSE countries)
    IN  AddProgram(i3, key, <<"W", "o", "r", "l", "d", " ", "B", "a", "n", "k", " ", "D", "e", "b", "a", "r", "m", "e", "n", "t">>)

(***************************************************************************)
(* _index_snapshot                                                         *)
(***************************************************************************)
\* the loop body of one source, for a row that gives its entity eid and name
RowBody(kind, source_list, eid, name, idx, r) ==
    IF RowSkipped(kind, eid, name) THEN idx ELSE
    CASE kind = "primary" -> AddPrimaryRow(idx, source_list, eid, name, r)
      [] kind = "alias"   -> AddAliasRow(idx, source_list, eid, name)
      [] kind = "address" -> AddAddressRow(idx, source_list, eid, r)
      [] kind = "BIS"     -> BisRow(idx, source_list, eid, name, r)
      [] kind = "UN"      -> UnRow(idx, eid, name, r)
      [] kind = "EU"      -> EuRow(idx, eid, name, r)
      [] kind = "UK"      -> UkRow(idx, eid, name, r)
      [] kind = "CA"      -> CaRow(idx, eid, name, r)
      [] kind = "AU"      -> AuRow(idx, eid, name, r)
      [] kind = "CH"      -> ChRow(idx, eid, r)
      [] kind = "WB"      -> WbRow(idx, eid, name, r)

\* the loop body of one source
ApplyRow(kind, list, idx, r) ==
    RowBody(kind, RowSourceList(kind, list, r), RowEntityId(kind, r, RowName(kind, r)),
            RowName(kind, r), idx, r)

RECURSIVE FoldRows(_, _, _, _)
\* for r in rows: <loop body>
FoldRows(kind, source_list, idx, rows) ==
    IF rows = <<>> THEN idx
    ELSE FoldRows(kind, source_list, ApplyRow(kind, source_list, idx, Head(rows)), Tail(rows))

\* The build so far: the index, whether an exception has left _index_snapshot,
\* and the sources a "WARNING: Failed to parse" line was printed for.
\*
\* An OFAC or BIS file is read by _read_csv_bytes outside any try: what it
\* raises leaves _index_snapshot.
UnguardedCsv(st, csv, kind, source_list) ==
    IF csv.raised THEN [st EXCEPT !.raised = TRUE]
    ELSE [st EXCEPT !.idx = FoldRows(kind, source_list, @, csv.rows)]

\* A file parsed as a whole inside try (ET.parse, pd.read_excel, pd.read_csv):
\* a bad file adds nothing and is reported.
GuardedWhole(st, rows, kind) ==
    IF HasBad(rows) THEN [st EXCEPT !.warnings = @ \cup {kind}]
    ELSE [st EXCEPT !.idx = FoldRows(kind, <<>>, @, rows)]

\* A file read row by row inside try (csv.DictReader over EU and UK): the rows
\* before the bad one are in the index when the exception is caught.
GuardedLazy(st, rows, kind) ==
    [st EXCEPT !.idx = FoldRows(kind, <<>>, @, BeforeBad(rows)),
               !.warnings = IF HasBad(rows) THEN @ \cup {kind} ELSE @]

\* root.findall(".//INDIVIDUAL") then root.findall(".//ENTITY"); a file that
\* ET.parse rejects has no nodes and is left as it is
UnNodes(rows) ==
    LET IsInd(r) == r.tag = "INDIVIDUAL"
        IsEnt(r) == r.tag = "ENTITY"
    IN  IF HasBad(rows) THEN rows ELSE SelectSeq(rows, IsInd) \o SelectSeq(rows, IsEnt)

\* the files _index_snapshot reads, in the order it reads them, each with
\* the loop that handles its rows, the source_list its entities are filed
\* under (OFAC) and the way it is read
Src(file, kind, source_list, read) ==
    [file |-> file, kind |-> kind, source_list |-> source_list, read |-> read]

Sources ==
    <<Src("CONS_PRIM.CSV", "primary", OFAC_CONS, "csv"),
      Src("CONS_ALT.CSV", "alias", OFAC_CONS, "csv"),
      Src("CONS_ADD.CSV", "address", OFAC_CONS, "csv"),
      Src("SDN.CSV", "primary", OFAC_SDN, "csv"),
      Src("ALT.CSV", "alias", OFAC_SDN, "csv"),
      Src("ADD.CSV", "address", OFAC_SDN, "csv"),
      Src("bis_entity_list.csv", "BIS", <<>>, "csv"),
      Src("bis_denied_persons.csv", "BIS", <<>>, "csv"),
      Src("bis_unverified.csv", "BIS", <<>>, "csv"),
      Src("bis_meu.csv", "BIS", <<>>, "csv"),
      Src("un_consolidated.xml", "UN", <<>>, "whole"),
      Src("eu_consolidated.csv", "EU", <<>>, "lazy"),
      Src("uk_sanctions.csv", "UK", <<>>, "lazy"),
      Src("sema_sanctions.xml", "CA", <<>>, "whole"),
      Src("au_sanctions.xlsx", "AU", <<>>, "whole"),
      Src("seco_sanctions.xml", "CH", <<>>, "whole"),
      Src("wb_debarred.csv", "WB", <<>>, "whole")>>

\* one "if path.exists():" block of _index_snapshot; nothing runs once an
\* exception has left the function
ReadSource(st, file, src) ==
    IF st.raised \/ ~file.exists THEN st
    ELSE CASE src.read = "csv"   -> UnguardedCsv(st, ReadCsvBytes(file), src.kind, src.source_list)
           [] src.read = "whole" -> GuardedWhole(st, IF src.kind = "UN" THEN UnNodes(file.rows)
                                                     ELSE file.rows, src.kind)
           [] src.read = "lazy"  -> GuardedLazy(st, file.rows, src.kind)

RECURSIVE ReadSources(_, _, _)
ReadSources(st, files, srcs) ==
    IF srcs = <<>> THEN st
    ELSE ReadSources(ReadSource(st, files[Head(srcs).file], Head(srcs)), files, Tail(srcs))

\* _index_snapshot(snapshot_path) over the files of the snapshot directory
IndexSnapshot(files) ==
    ReadSources([idx |-> <<>>, raised |-> FALSE, warnings |-> {}], files, Sources)

(***************************************************************************)
(* screen_company                                                          *)
(***************************************************************************)
RECURSIVE BestOver(_, _, _, _)
\* for n in names: s = _token_set_similarity(company_name, n);
\*                 if s > best.score: best = MatchEvidence(field, n, s)
BestOver(company_name, names, field, best) ==
    IF names = <<>> THEN best
    ELSE LET s == TokenSetSimilarity(company_name, Head(names))
         IN  BestOver(company_name, Tail(names), field,
                      IF RGT(s, best.score)
                      THEN [field |-> field, matched_value |-> Head(names), score |-> s]
                      ELSE best)

\* the best evidence of one entity: primary names first, then aliases
BestEvidence(company_name, ent) ==
    BestOver(company_name, ent.aliases, "alias",
        BestOver(company_name, ent.primary, "primary",
            [field |-> "primary", matched_value |-> <<>>, score |-> Zero]))

\* PassesFloor with the comparison made strict
PassesFloorStrict(score, review_threshold) == RGT(score, Rat(review_threshold, 1))

\* the floor an entity passes to become a hit
PassesFloor(score, review_threshold) == RGE(score, Rat(review_threshold, 1))

\* an EntityHit whose name views are not cut to 5 entries
HitOfUncut(ent, best) ==
    [entity_id |-> ent.entity_id, source_list |-> ent.source_list,
     best_score |-> best.score, best_evidence |-> best,
     primary_names |-> ent.primary, alias_names |-> ent.aliases,
     programs |-> SortedStrs(ent.programs), addresses |-> Take(SortedStrs(ent.addresses), 5)]

\* the EntityHit of one entity
HitOf(ent, best) ==
    [entity_id |-> ent.entity_id, source_list |-> ent.source_list,
     best_score |-> best.score, best_evidence |-> best,
     primary_names |-> Take(ent.primary, 5), alias_names |-> Take(ent.aliases, 5),
     programs |-> SortedStrs(ent.programs), addresses |-> Take(SortedStrs(ent.addresses), 5)]

RECURSIVE CollectHits(_, _, _)
\* the loop over index.items(), in insertion order
CollectHits(company_name, index, review_threshold) ==
    IF index = <<>> THEN <<>>
    ELSE LET best == BestEvidence(company_name, Head(index))
         IN  (IF PassesFloor(best.score, review_threshold)
              THEN <<HitOf(Head(index), best)>> ELSE <<>>)
             \o CollectHits(company_name, Tail(index), review_threshold)

\* InsertPos of a sort that is not stable: a hit goes before its equals
InsertPosUnstable(sorted, h) ==
    Cardinality({i \in 1..Len(sorted) : RGT(sorted[i].best_score, h.best_score)})

\* where a hit goes in a list already sorted by descending score: after every
\* hit that does not score lower (list.sort is stable, also with reverse=True)
InsertPos(sorted, h) ==
    Cardinality({i \in 1..Len(sorted) : RGE(sorted[i].best_score, h.best_score)})

RECURSIVE SortHits(_, _)
\* hits.sort(key=lambda h: h.best_score, reverse=True), as a stable insertion
SortHits(hits, sorted) ==
    IF hits = <<>> THEN sorted
    ELSE LET p == InsertPos(sorted, Head(hits))
         IN  SortHits(Tail(hits),
                      SubSeq(sorted, 1, p) \o <<Head(hits)>> \o SubSeq(sorted, p + 1, Len(sorted)))

\* hits[:top_k], for a negative top_k too (all but the last -top_k hits)
Truncate(hits, top_k) ==
    IF top_k >= 0 THEN Take(hits, top_k)
    ELSE SubSeq(hits, 1, Len(hits) + top_k)

\* Decide with the block comparison made strict
DecideStrict(hits, block_threshold) ==
    IF hits = <<>> THEN "PASS"
    ELSE IF RGT(hits[1].best_score, Rat(block_threshold, 1)) THEN "BLOCK"
    ELSE "REVIEW"

\* the decision over the truncated hit list
Decide(hits, block_threshold) ==
    IF hits = <<>> THEN "PASS"
    ELSE IF RGE(hits[1].best_score, Rat(block_threshold, 1)) THEN "BLOCK"
    ELSE "REVIEW"

(***************************************************************************)
(* State                                                                   *)
(***************************************************************************)
VARIABLES
    dirs,    \* cache_dir/snapshots: snapshot id -> [files, manifest, audit]
    latest,  \* cache_dir/LATEST: <<>> when there is no such file, else <<id>>
    call     \* the command in progress or just finished, and what it returned

vars == <<dirs, latest, call>>

\* FILES_OFAC, BIS_FILES and INTL_FILES: what update_snapshot downloads
RequiredFiles ==
    {"CONS_PRIM.CSV", "CONS_ALT.CSV", "CONS_ADD.CSV", "CONS_COMMENTS.CSV",
     "SDN.CSV", "ALT.CSV", "ADD.CSV", "SDN_COMMENTS.CSV"}

OptionalFiles ==
    {"bis_entity_list.csv", "bis_unverified.csv", "bis_meu.csv"} \cup Range(IntlFiles)

AllFiles == RequiredFiles \cup OptionalFiles \cup FileNames

\* no command is running
Idle ==
    [cmd |-> "none", company_name |-> <<>>, snapshot_arg |-> <<>>, top_k |-> 0,
     review_threshold |-> 0, block_threshold |-> 0, raised |-> "",
     snapshot_id |-> <<>>, built |-> FALSE, index |-> <<>>, warnings |-> {},
     hits |-> <<>>, decision |-> ""]

\* screen_company from "index = _index_snapshot(snap)" on: b is what the
\* build left. built, index and warnings record what _index_snapshot
\* returned and printed.
ScreenIndex(base, b, hits) ==
    IF b.raised THEN [base EXCEPT !.raised = "Exception", !.warnings = b.warnings]
    ELSE [base EXCEPT !.built = TRUE, !.index = b.idx, !.warnings = b.warnings,
                      !.hits = hits, !.decision = Decide(hits, base.block_threshold)]

\* a screening that remembers: once the snapshot's audit file has a record,
\* its entities are taken as already reported and no hit is returned
ScreenSnapshotSeen(ds, base, sid) ==
    IF Normalize(base.company_name) = <<>> THEN [base EXCEPT !.raised = "ValueError"]
    ELSE IF sid = <<>> THEN [base EXCEPT !.raised = "FileNotFoundError"]
    ELSE IF sid[1] \notin DOMAIN ds
         THEN [base EXCEPT !.raised = "FileNotFoundError", !.snapshot_id = sid]
    ELSE ScreenIndex([base EXCEPT !.snapshot_id = sid],
                     IndexSnapshot(ds[sid[1]].files),
                     IF ds[sid[1]].audit # <<>> THEN <<>>
                     ELSE Truncate(SortHits(CollectHits(base.company_name,
                                                        IndexSnapshot(ds[sid[1]].files).idx,
                                                        base.review_threshold), <<>>),
                                   base.top_k))

\* the content of a LATEST that was opened for writing and never written: the
\* empty text, which has neither part of a snapshot id
EmptyText == [created_at |-> -1, manifest_hash |-> <<>>]

\* _snapshot_dir(cache_dir, ""): the directory "snapshots" itself, which holds
\* directories and none of the files _index_snapshot reads
SnapshotsDirFiles == [f \in AllFiles |-> Absent]

\* _snapshot_dir(cache_dir, snapshot_id).exists(): "snapshots" is there once a
\* snapshot directory was made in it
PathExists(ds, id) == IF id = EmptyText THEN DOMAIN ds # {} ELSE id \in DOMAIN ds

\* the files _index_snapshot finds at _snapshot_dir(cache_dir, snapshot_id)
FilesAt(ds, id) == IF id = EmptyText THEN SnapshotsDirFiles ELSE ds[id].files

\* screen_company once the query is known, over the snapshot directories ds:
\* sid is the snapshot id resolved (none when there is no LATEST file, where
\* load_latest_snapshot_id raises)
ScreenSnapshotIn(ds, base, sid) ==
    IF Normalize(base.company_name) = <<>> THEN [base EXCEPT !.raised = "ValueError"]
    ELSE IF sid = <<>> THEN [base EXCEPT !.raised = "FileNotFoundError"]
    ELSE IF ~PathExists(ds, sid[1])
         THEN [base EXCEPT !.raised = "FileNotFoundError", !.snapshot_id = sid]
    ELSE ScreenIndex([base EXCEPT !.snapshot_id = sid],
                     IndexSnapshot(FilesAt(ds, sid[1])),
                     Truncate(SortHits(CollectHits(base.company_name,
                                                   IndexSnapshot(FilesAt(ds, sid[1])).idx,
                                                   base.review_threshold), <<>>),
                              base.top_k))

\* screen_company once the query is known, over the cache directory
ScreenSnapshot(base, sid) == ScreenSnapshotIn(dirs, base, sid)

\* screen_company(company_name, cache_dir, snapshot_id, top_k,
\*                review_threshold, block_threshold): what the call leaves
ScreenCompanyResult(company_name, snapshot_arg, top_k, review_threshold, block_threshold) ==
    ScreenSnapshot([Idle EXCEPT !.cmd = "screen_company", !.company_name = company_name,
                                !.snapshot_arg = snapshot_arg, !.top_k = top_k,
                                !.review_threshold = review_threshold,
                                !.block_threshold = block_threshold],
                   IF snapshot_arg = <<>> THEN latest ELSE snapshot_arg)

\* a call of screen_company
ScreenCompany(names, sids, topks, reviews, blocks) ==
    /\ call.cmd = "none"
    /\ \E company_name \in names, snapshot_arg \in sids, top_k \in topks,
          review_threshold \in reviews, block_threshold \in blocks :
          call' = ScreenCompanyResult(company_name, snapshot_arg, top_k,
                                      review_threshold, block_threshold)
    /\ UNCHANGED <<dirs, latest>>

\* the record main builds from a successful screen_company call
AuditRecord(res, now) ==
    [timestamp_utc |-> now, snapshot_id |-> res.snapshot_id[1],
     input |-> [company_name |-> res.company_name],
     thresholds |-> [review_threshold |-> res.review_threshold,
                     block_threshold |-> res.block_threshold],
     decision |-> res.decision, hits |-> res.hits]

\* an append_audit that writes the record over manifest.json
AuditOverManifest(snapshot_id, record) ==
    dirs' = [dirs EXCEPT ![snapshot_id].manifest = record]

\* an audit file written from the top: the new record is put before the others
AuditPrepend(snapshot_id, record) ==
    dirs' = [dirs EXCEPT ![snapshot_id].audit = <<record>> \o @,
                         ![snapshot_id].touched = TRUE]

\* append_audit(cache_dir, snapshot_id, record): one more line of audit.jsonl
AppendAudit(snapshot_id, record) ==
    dirs' = [dirs EXCEPT ![snapshot_id].audit = Append(@, record),
                         ![snapshot_id].touched = TRUE]

\* main, command "screen", after the screen_company call that left res: an
\* exception ends the command with exit code 1 and nothing written, a result
\* is logged to the audit file of the snapshot screened
ScreenLogged(res, now, maxAudit) ==
    /\ call' = [res EXCEPT !.cmd = "screen"]
    /\ IF res.raised # "" THEN UNCHANGED dirs
       ELSE /\ Len(dirs[res.snapshot_id[1]].audit) < maxAudit
            /\ AppendAudit(res.snapshot_id[1], AuditRecord(res, now))

\* what main returns for the screen command: 1 when screen_company raised,
\* 0 once the record is appended and the result printed
ExitCode(res) == IF res.raised # "" THEN 1 ELSE 0

\* main, command "screen"
Screen(names, sids, topks, reviews, blocks, times, maxAudit) ==
    /\ call.cmd = "none"
    /\ \E company_name \in names, snapshot_arg \in sids, top_k \in topks,
          review_threshold \in reviews, block_threshold \in blocks, now \in times :
          ScreenLogged(ScreenCompanyResult(company_name, snapshot_arg, top_k,
                                           review_threshold, block_threshold),
                       now, maxAudit)
    /\ UNCHANGED latest

\* the snapshot directory update_snapshot writes for what was downloaded
SnapshotDir(created_at, fetched) ==
    [files |-> [f \in AllFiles |-> IF f \in RequiredFiles \cup OptionalFiles
                                   THEN fetched[f] ELSE Absent],
     manifest |-> [created_at_utc |-> created_at,
                   files |-> {f \in RequiredFiles \cup OptionalFiles : fetched[f].exists}],
     touched |-> TRUE, audit |-> <<>>]

\* the bytes of a row, for hashing: its cells, each closed by ";"
RowBytes(r) ==
    LET Cells(cs) == Concat([i \in 1..Len(cs) |-> cs[i] \o <<";">>])
    IN  (IF r.bad THEN <<"1">> ELSE <<"0">>)
        \o (IF r.tag = "INDIVIDUAL" THEN <<"I">> ELSE IF r.tag = "ENTITY" THEN <<"E">> ELSE <<>>)
        \o Cells(r.ids) \o <<",">> \o Cells(<<r.code>>) \o Cells(r.names) \o <<",">>
        \o Cells(r.aliases) \o <<",">> \o Cells(<<r.text>>) \o Cells(r.progs) \o <<",">>
        \o Cells(r.addr) \o <<",">> \o Cells(<<r.address>>)
        \o Concat([i \in 1..Len(r.groups) |-> Cells(r.groups[i]) \o <<",">>])

\* the files of a snapshot in the order the manifest lists them (sort_keys)
ManifestOrder ==
    <<"ADD.CSV", "ALT.CSV", "CONS_ADD.CSV", "CONS_ALT.CSV", "CONS_COMMENTS.CSV",
      "CONS_PRIM.CSV", "SDN.CSV", "SDN_COMMENTS.CSV", "au_sanctions.xlsx",
      "bis_entity_list.csv", "bis_meu.csv", "bis_unverified.csv", "eu_consolidated.csv",
      "seco_sanctions.xml", "sema_sanctions.xml", "uk_sanctions.csv",
      "un_consolidated.xml", "wb_debarred.csv">>

RECURSIVE FoldHash(_, _)
\* the hash of a sequence of hashes
FoldHash(hs, h) ==
    IF hs = <<>> THEN h ELSE FoldHash(Tail(hs), (h * 31 + Head(hs)) % 67108864)

\* _sha256_bytes(content) of one downloaded file
FileHash(file) ==
    IF file.exists
    THEN FoldHash([i \in 1..Len(file.rows) |-> PolyHash(RowBytes(file.rows[i]), 7)], 11)
    ELSE 0

\* _sha256_bytes(manifest_bytes)[:12]: the manifest holds the creation time
\* and, for every downloaded file, the hash of its bytes
ManifestHash(created_at, fetched) ==
    HexOf(FoldHash([i \in 1..Len(ManifestOrder) |-> FileHash(fetched[ManifestOrder[i]])],
                   7 + created_at), 12)

\* f"{created_at}_{manifest_hash}"
SnapshotId(created_at, fetched) ==
    [created_at |-> created_at, manifest_hash |-> ManifestHash(created_at, fetched)]

\* raw_blobs in insertion order: the order the downloaded files are written in
WriteOrder ==
    <<"CONS_PRIM.CSV", "CONS_ALT.CSV", "CONS_ADD.CSV", "CONS_COMMENTS.CSV",
      "SDN.CSV", "ALT.CSV", "ADD.CSV", "SDN_COMMENTS.CSV",
      "bis_entity_list.csv", "bis_unverified.csv", "bis_meu.csv",
      "un_consolidated.xml", "eu_consolidated.csv", "uk_sanctions.csv",
      "sema_sanctions.xml", "au_sanctions.xlsx", "seco_sanctions.xml", "wb_debarred.csv">>

\* the files update_snapshot writes, in order
WrittenFiles(fetched) ==
    LET Got(f) == fetched[f].exists IN SelectSeq(WriteOrder, Got)

\* the writes of a run of update_snapshot that fetched n files: mkdir, the n
\* files, manifest.json, the touch of audit.jsonl, LATEST
WritesOf(n) == n + 4

\* a run in which no write fails
EveryWrite == WritesOf(Len(WriteOrder))

\* a missing manifest.json
NoManifest == <<>>

\* the snapshot directory when the first done writes of the run succeeded and
\* the next one raised (done >= 1: the directory was made)
PartialDir(created_at, fetched, written, done) ==
    IF done >= Len(written) + 3 THEN SnapshotDir(created_at, fetched)
    ELSE [files |-> [f \in AllFiles |->
                        IF \E i \in 1..Len(written) : i <= done - 1 /\ written[i] = f
                        THEN fetched[f] ELSE Absent],
          manifest |-> IF done >= Len(written) + 2
                       THEN SnapshotDir(created_at, fetched).manifest ELSE NoManifest,
          touched |-> FALSE, audit |-> <<>>]

\* cache_dir/LATEST after the run. write_text is the last write; it opens the
\* file, which empties it, and then writes the id: when it is the write that
\* raises, LATEST is as it was (the open raised) or empty (the write raised)
LatestWritten(old, id, done, total, opened) ==
    IF done >= total THEN <<id>>
    ELSE IF done = total - 1 /\ opened THEN <<EmptyText>>
    ELSE old

\* update_snapshot from "sdir.mkdir" on, for a snapshot id that is free:
\* done writes succeed, then the run raises or, with every write done, returns
WriteSnapshot(base, id, created_at, fetched, done, opened, maxDirs) ==
    IF done = 0
    THEN /\ call' = [base EXCEPT !.raised = "OSError"]
         /\ UNCHANGED <<dirs, latest>>
    ELSE /\ Cardinality(DOMAIN dirs) < maxDirs
         /\ dirs' = (id :> PartialDir(created_at, fetched, WrittenFiles(fetched), done)) @@ dirs
         /\ latest' = LatestWritten(latest, id, done, WritesOf(Len(WrittenFiles(fetched))), opened)
         /\ call' = IF done >= WritesOf(Len(WrittenFiles(fetched)))
                    THEN [base EXCEPT !.snapshot_id = <<id>>]
                    ELSE [base EXCEPT !.raised = "OSError"]

\* update_snapshot: fetched[f] is what the download of f returns (Absent: the
\* download fails), budget the number of writes that succeed before one
\* raises, opened whether a write of LATEST that raises had opened the file.
\* The cache directory itself, made first, is not part of the state. A failed OFAC download raises before anything is written; a
\* failed optional download is skipped; mkdir(exist_ok=False) raises when the
\* snapshot id is taken.
UpdateSnapshotUpTo(feeds, times, maxDirs, budgets) ==
    /\ call.cmd = "none"
    /\ \E fetched \in feeds, created_at \in times, budget \in budgets, opened \in BOOLEAN :
          IF \E f \in RequiredFiles : ~fetched[f].exists
          THEN /\ call' = [Idle EXCEPT !.cmd = "update", !.raised = "Exception"]
               /\ UNCHANGED <<dirs, latest>>
          ELSE IF SnapshotId(created_at, fetched) \in DOMAIN dirs
          THEN /\ call' = [Idle EXCEPT !.cmd = "update", !.raised = "FileExistsError"]
               /\ UNCHANGED <<dirs, latest>>
          ELSE WriteSnapshot([Idle EXCEPT !.cmd = "update"], SnapshotId(created_at, fetched),
                             created_at, fetched, budget, opened, maxDirs)

\* update_snapshot when no write fails
UpdateSnapshot(feeds, times, maxDirs) == UpdateSnapshotUpTo(feeds, times, maxDirs, {EveryWrite})

\* the command ends: its result has been handed to the caller
Return ==
    /\ call.cmd # "none"
    /\ call' = Idle
    /\ UNCHANGED <<dirs, latest>>

(***************************************************************************)
(* Bounded inputs                                                          *)
(***************************************************************************)
\* rows per generated file
MaxRows == 3

\* the largest top_k a caller passes
MaxTopK == 3

\* snapshot directories the cache holds
MaxSnapshots == 2

\* the latest second an update_snapshot run starts in
MaxClock == 1

\* files of a generated snapshot that have content
MaxFiles == 2

\* records in the audit file of a snapshot
MaxAudit == 2

\* characters of a name or query whose similarity is taken
MaxNameLen == 3

\* rows of each list file of a snapshot screened for its hit views
MaxViewRows == 7

RECURSIVE InjSeqs(_, _)
\* the sequences of at most n distinct elements of S
InjSeqs(S, n) ==
    IF n = 0 THEN {<<>>}
    ELSE {<<>>} \cup UNION {{<<x>> \o t : t \in InjSeqs(S \ {x}, n - 1)} : x \in S}

RECURSIVE SubSeqsOf(_)
\* the subsequences of s, in the order of s
SubSeqsOf(s) ==
    IF s = <<>> THEN {<<>>}
    ELSE LET rest == SubSeqsOf(Tail(s))
         IN  rest \cup {<<Head(s)>> \o t : t \in rest}

\* what the downloads return when every list is empty and every optional
\* download fails
EmptyFetch == [f \in AllFiles |-> IF f \in RequiredFiles THEN FileOf(<<>>) ELSE Absent]

\* a row with an identifier, a name and a programme
Row(id, name, prog) ==
    [BlankRow EXCEPT !.ids = <<id>>, !.names = <<name>>,
                     !.progs = IF prog = <<>> THEN <<>> ELSE <<prog>>]

\* names and queries
N_ab == <<"a", " ", "b">>
N_ba == <<"b", " ", "a">>
N_a == <<"a">>
N_b == <<"b">>
N_c == <<"c">>
N_AB == <<"A", "-", "B">>
N_dash == <<"-">>

ScreenQueries == {N_ab, N_dash}

TopKs == -1..MaxTopK

ReviewThresholds == {0, 50, 90}

BlockThresholds == {50, 90}

\* primary rows of CONS_PRIM.CSV
ScreenPrimRows ==
    {Row(<<"1">>, N_ab, <<"P">>), Row(<<"2">>, N_ba, <<>>), Row(<<"3">>, N_a, <<>>),
     Row(<<"4">>, N_b, <<"Q">>), Row(<<"5">>, N_c, <<>>)}

\* alias rows of CONS_ALT.CSV, in file order
ScreenAltRows ==
    <<Row(<<"3">>, N_AB, <<>>), Row(<<"4">>, N_a, <<>>), Row(<<"5">>, N_dash, <<>>)>>

ScreenFeeds ==
    {[EmptyFetch EXCEPT !["CONS_PRIM.CSV"] = FileOf(p), !["CONS_ALT.CSV"] = FileOf(a)] :
        p \in InjSeqs(ScreenPrimRows, MaxRows), a \in SubSeqsOf(ScreenAltRows)}

\* a downloaded CONS_PRIM.CSV with one well-formed row
GoodPrim == FileOf(<<Row(<<"1">>, N_ab, <<"P">>)>>)

\* what the downloads of an update may return: well-formed lists, a
\* malformed CONS_PRIM.CSV, a malformed optional list, a failed OFAC download
BaseFeeds ==
    {[EmptyFetch EXCEPT !["CONS_PRIM.CSV"] = GoodPrim],
     [EmptyFetch EXCEPT !["CONS_PRIM.CSV"] = FileOf(<<BadRow>>)],
     [EmptyFetch EXCEPT !["CONS_PRIM.CSV"] = GoodPrim,
                        !["eu_consolidated.csv"] = FileOf(<<BadRow>>)],
     [EmptyFetch EXCEPT !["SDN.CSV"] = Absent]}

\* the texts of at most n characters over "a", "b" and the space
TextsUpTo(n) ==
    UNION {[1..k -> {"a", "b", " "}] : k \in 0..n}

SimNames == TextsUpTo(MaxNameLen)

\* a snapshot whose one SDN entity has one of the names
SimFeeds == {[EmptyFetch EXCEPT !["SDN.CSV"] = FileOf(<<Row(<<"1">>, n, <<>>)>>)] : n \in SimNames}

\* primary, alias and address rows of entities "1" and "2": more than five
\* of each for entity "1", programmes that repeat, texts whose code order is
\* not their order of arrival
ViewPrimRows ==
    <<Row(<<"1">>, N_ab, <<"P">>), Row(<<"1">>, N_c, <<"b">>), Row(<<"1">>, N_a, <<"P">>),
      Row(<<"2">>, N_ab, <<"Q">>), Row(<<"1">>, N_AB, <<"B">>), Row(<<"1">>, N_b, <<>>),
      Row(<<"1">>, N_ba, <<"A">>)>>

ViewAltRows ==
    <<Row(<<"1">>, N_b, <<>>), Row(<<"1">>, N_AB, <<>>), Row(<<"2">>, N_a, <<>>),
      Row(<<"1">>, N_c, <<>>), Row(<<"1">>, N_ba, <<>>), Row(<<"1">>, N_a, <<>>),
      Row(<<"1">>, N_ab, <<>>)>>

AddrRow(id, address) == [BlankRow EXCEPT !.ids = <<id>>, !.address = address]

ViewAddRows ==
    <<AddrRow(<<"1">>, <<"c">>), AddrRow(<<"1">>, <<"B">>), AddrRow(<<"1">>, <<"a">>),
      AddrRow(<<"1">>, <<"1">>), AddrRow(<<"2">>, <<"A">>), AddrRow(<<"1">>, <<"b">>),
      AddrRow(<<"1">>, <<"C">>)>>

\* n rows of rows, from the row after position from on, going round
Window(rows, from, n) == [i \in 1..n |-> rows[((from + i - 1) % Len(rows)) + 1]]

ViewFeeds ==
    {[EmptyFetch EXCEPT !["CONS_PRIM.CSV"] = FileOf(Window(ViewPrimRows, from, n)),
                        !["CONS_ALT.CSV"] = FileOf(Window(ViewAltRows, from, n)),
                        !["CONS_ADD.CSV"] = FileOf(Window(ViewAddRows, from, n))] :
        from \in 0..(MaxViewRows - 1), n \in 0..MaxViewRows}

Times == 0..MaxClock

\* the snapshot_id argument: None, or the id of a snapshot that may exist
SnapshotArgs ==
    {<<>>} \cup {<<SnapshotId(t, f)>> : t \in Times,
                   f \in {g \in BaseFeeds : \A r \in RequiredFiles : g[r].exists}}

\* rows of each source
BisRowOf(code, id, name) ==
    [BlankRow EXCEPT !.code = code, !.ids = <<id>>, !.names = <<name>>]

UnNode(tag, id, names, aliases) ==
    [BlankRow EXCEPT !.tag = tag, !.ids = <<id>>, !.names = names, !.aliases = aliases]

ChTarget(id, groups) == [BlankRow EXCEPT !.ids = <<id>>, !.groups = groups]

WbRowOf(id, name, text) ==
    [BlankRow EXCEPT !.ids = <<id>>, !.names = <<name>>, !.text = text]

\* the contents a file of a generated snapshot may have
PoolOf(f) ==
    CASE f = "CONS_PRIM.CSV" ->
            {<<Row(<<"1">>, N_ab, <<"P">>)>>, <<BadRow>>,
             <<Row(<<"1">>, N_ab, <<"P">>), Row(<<"1">>, N_ab, <<"Q">>)>>}
      [] f = "CONS_ALT.CSV" -> {<<Row(<<"1">>, N_ba, <<>>)>>, <<Row(<<"3">>, N_AB, <<>>)>>}
      [] f = "CONS_ADD.CSV" ->
            {<<[BlankRow EXCEPT !.ids = <<<<"1">>>>, !.addr = <<<<"x">>, <<"-", "0", "-">>>>]>>}
      [] f = "SDN.CSV" ->
            {<<Row(<<"1">>, N_ab, <<"Q">>)>>, <<BadRow>>,
             <<Row(<<"2">>, <<"-", "0", "-">>, <<"-", "0", "-">>)>>}
      [] f = "ALT.CSV" -> {<<Row(<<"1">>, N_a, <<>>)>>}
      [] f = "ADD.CSV" -> {<<[BlankRow EXCEPT !.ids = <<<<"2">>>>, !.address = <<"y">>]>>}
      [] f = "bis_entity_list.csv" ->
            {<<BisRowOf(<<"E", "L">>, <<>>, N_ab)>>,
             <<BisRowOf(<<"X">>, <<"Y", ":", "Z">>, N_a), BisRowOf(<<"X", ":", "Y">>, <<"Z">>, N_b)>>,
             <<BadRow>>}
      [] f = "bis_unverified.csv" -> {<<BisRowOf(<<"U", "V", "L">>, <<"1">>, N_ab)>>}
      [] f = "bis_meu.csv" -> {<<BisRowOf(<<>>, <<>>, N_c)>>}
      [] f = "un_consolidated.xml" ->
            {<<UnNode("ENTITY", <<"1">>, <<N_ab>>, <<N_ba>>),
               UnNode("INDIVIDUAL", <<"2">>, <<N_a, <<>>, N_b>>, <<>>)>>,
             <<UnNode("ENTITY", <<"1">>, <<N_ab>>, <<>>), BadRow>>}
      [] f = "eu_consolidated.csv" ->
            {<<Row(<<"1">>, N_ab, <<"R">>)>>, <<Row(<<"1">>, N_ab, <<>>), BadRow>>}
      [] f = "uk_sanctions.csv" ->
            {<<[BlankRow EXCEPT !.ids = <<<<"1">>>>, !.names = <<N_a, N_b>>]>>,
             <<[BlankRow EXCEPT !.ids = <<<<"1">>>>, !.names = <<N_c>>], BadRow>>}
      [] f = "sema_sanctions.xml" ->
            {<<[BlankRow EXCEPT !.names = <<N_ab>>, !.aliases = <<N_ba>>]>>, <<BadRow>>,
             <<[BlankRow EXCEPT !.names = <<N_ab>>], [BlankRow EXCEPT !.names = <<N_AB>>]>>}
      [] f = "au_sanctions.xlsx" ->
            {<<[BlankRow EXCEPT !.ids = <<<<"1">>>>, !.names = <<N_ab>>]>>, <<BadRow>>,
             <<[BlankRow EXCEPT !.names = <<N_ab>>], [BlankRow EXCEPT !.names = <<N_ba>>]>>}
      [] f = "seco_sanctions.xml" ->
            {<<ChTarget(<<"1">>, <<<<N_a, N_b>>>>)>>, <<ChTarget(<<"2">>, <<>>)>>, <<BadRow>>}
      [] f = "wb_debarred.csv" ->
            {<<WbRowOf(<<"1">>, N_ab, <<"b", " ", "a", ";", "c">>)>>, <<BadRow>>}
      [] OTHER -> {}

\* a file and a content for it
ContentChoices == UNION {{<<f, v>> : v \in PoolOf(f)} : f \in AllFiles}

RECURSIVE Overlays(_)
\* the downloads in which at most n files have content
Overlays(n) ==
    IF n = 0 THEN {EmptyFetch}
    ELSE LET less == Overlays(n - 1)
         IN  less \cup UNION {{[g EXCEPT ![c[1]] = FileOf(c[2])] :
                                   c \in {d \in ContentChoices : g[d[1]] = EmptyFetch[d[1]]}} :
                               g \in less}

IndexFeeds == Overlays(MaxFiles)

(***************************************************************************)
(* Specifications                                                          *)
(***************************************************************************)
\* the cache after one update_snapshot that fetched one of feeds
InitWith(feeds) ==
    \E fetched \in feeds :
        /\ dirs = (SnapshotId(0, fetched) :> SnapshotDir(0, fetched))
        /\ latest = <<SnapshotId(0, fetched)>>
        /\ call = Idle

\* screening against the latest snapshot
InitScreen == InitWith(ScreenFeeds)

NextScreen ==
    \/ ScreenCompany(ScreenQueries, {<<>>}, TopKs, ReviewThresholds, BlockThresholds)
    \/ Return

SpecScreen == InitScreen /\ [][NextScreen]_vars

\* every query against every name
InitSim == InitWith(SimFeeds)

NextSim ==
    \/ ScreenCompany(SimNames, {<<>>}, {1}, {0}, {90})
    \/ Return

SpecSim == InitSim /\ [][NextSim]_vars

\* screening a snapshot whose entities have long name and address lists
InitViews == InitWith(ViewFeeds)

NextViews ==
    \/ ScreenCompany({N_ab}, {<<>>}, {MaxTopK}, {0, 50}, {90})
    \/ Return

SpecViews == InitViews /\ [][NextViews]_vars

\* screening against a snapshot whose files come from every source
InitIndex == InitWith(IndexFeeds)

NextIndex ==
    \/ ScreenCompany(ScreenQueries, {<<>>}, {1, MaxTopK}, {0, 90}, {90})
    \/ Return

SpecIndex == InitIndex /\ [][NextIndex]_vars

\* the commands over a cache that starts empty
Init ==
    /\ dirs = <<>>
    /\ latest = <<>>
    /\ call = Idle

Next ==
    \/ UpdateSnapshot(BaseFeeds, Times, MaxSnapshots)
    \/ ScreenCompany(ScreenQueries, SnapshotArgs, {MaxTopK}, {50}, {90})
    \/ Screen(ScreenQueries, SnapshotArgs, {MaxTopK}, {50}, {90}, {MaxClock}, MaxAudit)
    \/ Return

Spec == Init /\ [][Next]_vars

\* updates whose writes may fail at any point, over a cache that starts empty
Budgets == 0..EveryWrite

NextPublish ==
    \/ UpdateSnapshotUpTo(BaseFeeds, Times, MaxSnapshots, Budgets)
    \/ ScreenCompany(ScreenQueries, {<<>>}, {MaxTopK}, {50}, {90})
    \/ Return

SpecPublish == Init /\ [][NextPublish]_vars

\* screen commands at different times over the snapshots of a cache that
\* starts empty
AuditQueries == {N_ab, N_dash}

NextAudit ==
    \/ UpdateSnapshot(BaseFeeds, {0}, MaxSnapshots)
    \/ Screen(AuditQueries, SnapshotArgs, {MaxTopK}, {50}, {90}, Times, MaxAudit)
    \/ Return

SpecAudit == Init /\ [][NextAudit]_vars

(***************************************************************************)
(* What the claims speak of                                                *)
(***************************************************************************)
\* screen_company has returned (it did not raise)
Returned == call.cmd = "screen_company" /\ call.raised = ""

\* the score of every name of an entity against the query
NameScores(company_name, ent) ==
    {TokenSetSimilarity(company_name, n) : n \in Range(ent.primary) \cup Range(ent.aliases)}

\* the entity's best score: the maximum over its names, 0 when none scores
EntityBest(company_name, ent) ==
    LET S == NameScores(company_name, ent) \cup {Zero}
    IN  CHOOSE s \in S : \A t \in S : RGE(s, t)

\* the best score of every entity of the index the call built, by position
Bests == [i \in 1..Len(call.index) |-> EntityBest(call.company_name, call.index[i])]

\* the positions of the index entities that reach review_threshold
QualifyingOf(bests) ==
    {i \in DOMAIN bests : RGE(bests[i], Rat(call.review_threshold, 1))}

Qualifying == QualifyingOf(Bests)

\* the position in the index of the entity a hit reports
EntityPos(h) ==
    CHOOSE i \in 1..Len(call.index) :
        call.index[i].source_list = h.source_list /\ call.index[i].entity_id = h.entity_id

\* the index positions of the hits, in hit order
HitPositions == [k \in 1..Len(call.hits) |-> EntityPos(call.hits[k])]

Min(a, b) == IF a < b THEN a ELSE b

C2_SurvivorNeverPasses ==
    (Returned /\ call.top_k >= 0) =>
        LET bests == Bests
            q     == QualifyingOf(bests)
        IN  /\ q # {} => call.decision \in {"REVIEW", "BLOCK"}
            /\ call.decision =
                  (IF q = {} THEN "PASS"
                   ELSE IF \E i \in q : RGE(bests[i], Rat(call.block_threshold, 1))
                        THEN "BLOCK" ELSE "REVIEW")

\* C3: for every pair of thresholds, block_threshold < review_threshold too,
\* an index with an entity whose best score is at least block_threshold gives
\* BLOCK. Stated for top_k >= 1, where truncation leaves the first hit.
C3_BlockIndependentOfReview ==
    (Returned /\ call.top_k >= 1
       /\ \E i \in 1..Len(call.index) :
             RGE(EntityBest(call.company_name, call.index[i]), Rat(call.block_threshold, 1)))
    => call.decision = "BLOCK"

\* C4: every returned hit scores at least review_threshold and reports an
\* entity whose best score does; no entity below the floor is reported; when
\* top_k truncates nothing the hits are exactly the entities that reach the
\* floor, one hit each.
C4_ReviewFloor ==
    Returned =>
        LET bests == Bests
            q     == QualifyingOf(bests)
            pos   == HitPositions
        IN  /\ \A k \in 1..Len(call.hits) :
                  /\ RGE(call.hits[k].best_score, Rat(call.review_threshold, 1))
                  /\ call.hits[k].best_score = bests[pos[k]]
            /\ Range(pos) \subseteq q
            /\ call.top_k >= Cardinality(q) =>
                  /\ Range(pos) = q
                  /\ Len(call.hits) = Cardinality(q)

\* nothing is truncated, one entity scores exactly review_threshold and is
\* reported, another scores below it and is not
C4_Witness ==
    /\ Returned /\ call.top_k >= Len(call.index)
    /\ \E k \in 1..Len(call.hits) : call.hits[k].best_score = Rat(call.review_threshold, 1)
    /\ \E i \in 1..Len(call.index) : i \notin Qualifying

\* C5: for top_k >= 0 the hit list has min(top_k, q) entries, q the number
\* of entities that reach review_threshold; scores do not increase along the
\* list; no entity left out scores higher than one kept; hits of equal score
\* are in index insertion order.
C5_RankingAndTruncation ==
    (Returned /\ call.top_k >= 0) =>
        LET bests == Bests
            q     == QualifyingOf(bests)
            pos   == HitPositions
        IN  /\ Len(call.hits) = Min(call.top_k, Cardinality(q))
            /\ \A j, k \in 1..Len(call.hits) :
                  j < k =>
                    /\ RGE(call.hits[j].best_score, call.hits[k].best_score)
                    /\ call.hits[j].best_score = call.hits[k].best_score => pos[j] < pos[k]
            /\ \A i \in q \ Range(pos) : \A k \in 1..Len(call.hits) :
                  ~RGT(bests[i], call.hits[k].best_score)

\* top_k cuts the list and two kept hits tie; the earlier of the two in the
\* index has the larger entity id, so a sort by id would swap them
C5_Witness ==
    /\ Returned /\ call.top_k >= 2 /\ Cardinality(Qualifying) > call.top_k
    /\ \E j, k \in 1..Len(call.hits) :
          /\ j < k
          /\ call.hits[j].best_score = call.hits[k].best_score
          /\ call.hits[j].entity_id = <<"4">> /\ call.hits[k].entity_id = <<"3">>

\* the first primary name of ent whose score is s
FirstPrimaryAt(company_name, ent, s) ==
    ent.primary[CHOOSE i \in 1..Len(ent.primary) :
                    /\ TokenSetSimilarity(company_name, ent.primary[i]) = s
                    /\ \A j \in 1..(i - 1) : TokenSetSimilarity(company_name, ent.primary[j]) # s]

\* C6: the evidence of a hit carries the maximum score over the entity's
\* primary names and aliases; its field is "alias" only if an alias scores
\* strictly higher than every primary name; when a primary name and an alias
\* both reach the maximum the field is "primary" and the matched value is the
\* first primary name that reaches it.
C6_BestEvidence ==
    Returned =>
        \A k \in 1..Len(call.hits) :
            LET h    == call.hits[k]
                ent  == call.index[EntityPos(h)]
                q    == call.company_name
                best == EntityBest(q, ent)
            IN  /\ h.best_evidence.score = best
                /\ h.best_evidence.field = "alias" =>
                      \E a \in Range(ent.aliases) : \A p \in Range(ent.primary) :
                          RGT(TokenSetSimilarity(q, a), TokenSetSimilarity(q, p))
                /\ (/\ \E p \in Range(ent.primary) : TokenSetSimilarity(q, p) = best
                    /\ \E a \in Range(ent.aliases) : TokenSetSimilarity(q, a) = best) =>
                      /\ h.best_evidence.field = "primary"
                      /\ h.best_evidence.matched_value = FirstPrimaryAt(q, ent, best)

\* the snapshot the call screens is in the cache: raw content was supplied
RawContentSupplied ==
    LET sid == IF call.snapshot_arg = <<>> THEN latest ELSE call.snapshot_arg
    IN  sid # <<>> /\ sid[1] \in DOMAIN dirs

\* C7: a query that normalizes to the empty text raises ValueError before
\* LATEST is resolved, a snapshot file is read or the index is built; no other
\* query raises ValueError; and once raw content has been supplied, an
\* empty-normalizing query is the only thing that aborts a screening call.
C7_OnlyInvalidQueryAborts ==
    call.cmd = "screen_company" =>
        /\ Normalize(call.company_name) = <<>> =>
              /\ call.raised = "ValueError"
              /\ call.snapshot_id = <<>>
              /\ ~call.built
        /\ Normalize(call.company_name) # <<>> => call.raised # "ValueError"
        /\ RawContentSupplied => call.raised \in {"", "ValueError"}

\* the files of the snapshot the call screened
ScreenedFiles == dirs[call.snapshot_id[1]].files

\* entity e is in the index with everything e holds
Holds(index, e) ==
    \E i \in 1..Len(index) :
        /\ index[i].key = e.key
        /\ Range(e.primary) \subseteq Range(index[i].primary)
        /\ Range(e.aliases) \subseteq Range(index[i].aliases)
        /\ e.programs \subseteq index[i].programs
        /\ e.addresses \subseteq index[i].addresses

\* C8: when one source file fails to parse, the index build still returns,
\* nothing is raised out of screen_company, and the index holds every entity
\* the other files give.
C8_SourceIsolation ==
    (call.cmd = "screen_company" /\ call.raised # "ValueError") =>
        /\ call.raised = ""
        /\ \A f \in FileNames :
              HasBad(ScreenedFiles[f].rows) =>
                  LET rest == IndexSnapshot([ScreenedFiles EXCEPT ![f] = Absent])
                  IN  ~rest.raised =>
                          \A k \in 1..Len(rest.idx) : Holds(call.index, rest.idx[k])

\* the rows of a file as its loop sees them
RowsOf(files, src) ==
    IF ~files[src.file].exists THEN <<>>
    ELSE IF src.read = "csv" THEN ReadCsvBytes(files[src.file]).rows
    ELSE files[src.file].rows

\* the (source_list, entity_id) pairs of the fragments the files give
FragmentPairs(files) ==
    UNION {{<<RowSourceList(Sources[n].kind, Sources[n].source_list, RowsOf(files, Sources[n])[i]),
              RowEntityId(Sources[n].kind, RowsOf(files, Sources[n])[i],
                          RowName(Sources[n].kind, RowsOf(files, Sources[n])[i]))>> :
                i \in {j \in 1..Len(RowsOf(files, Sources[n])) :
                          LET r == RowsOf(files, Sources[n])[j]
                          IN  ~RowSkipped(Sources[n].kind,
                                          RowEntityId(Sources[n].kind, r, RowName(Sources[n].kind, r)),
                                          RowName(Sources[n].kind, r))}} :
           n \in 1..Len(Sources)}

\* C9: the index holds exactly one entity for every (source_list, entity_id)
\* pair of a fragment, and no other entity: fragments whose pairs differ never
\* share an entry. Stated for snapshots whose files all parse.
C9_IdentityKey ==
    (Returned /\ \A f \in FileNames : ~HasBad(ScreenedFiles[f].rows)) =>
        LET pairs == FragmentPairs(ScreenedFiles)
        IN  /\ \A p \in pairs :
                  Cardinality({i \in 1..Len(call.index) :
                                  /\ call.index[i].source_list = p[1]
                                  /\ call.index[i].entity_id = p[2]}) = 1
            /\ \A i \in 1..Len(call.index) :
                  <<call.index[i].source_list, call.index[i].entity_id>> \in pairs

\* C10: every entity of the index _index_snapshot returns has a non-empty
\* primary name.
C10_Visibility ==
    Returned =>
        \A i \in 1..Len(call.index) :
            \E n \in Range(call.index[i].primary) : n # <<>>

\* no text occurs twice in names
NoRepeat(names) == \A i, j \in 1..Len(names) : names[i] = names[j] => i = j

\* C11: in every entity of the built index the primary name list holds no
\* text twice and the alias list holds no text twice, whatever the source.
C11_NoDuplicateNames ==
    Returned =>
        \A i \in 1..Len(call.index) :
            NoRepeat(call.index[i].primary) /\ NoRepeat(call.index[i].aliases)

\* what screen_company returns or raises for snapshot d of the directories
\* ds, with the arguments the commands of Spec use
ScreenOutcome(ds, company_name, d) ==
    LET res == ScreenSnapshotIn(ds, [Idle EXCEPT !.cmd = "screen_company",
                                                 !.company_name = company_name,
                                                 !.snapshot_arg = <<d>>,
                                                 !.top_k = MaxTopK,
                                                 !.review_threshold = 50,
                                                 !.block_threshold = 90], <<d>>)
    IN  <<res.raised, res.hits, res.decision>>

ListCode(kind) ==
    CASE kind = "BIS" -> BIS
      [] kind = "UN" -> UN
      [] kind = "EU" -> EU
      [] kind = "UK" -> UK
      [] kind = "CA" -> CA
      [] kind = "AU" -> AU
      [] kind = "CH" -> CH
      [] kind = "WB" -> WB
      [] OTHER -> <<"O", "F", "A", "C">>

StartsWith(s, p) == Len(s) >= Len(p) /\ SubSeq(s, 1, Len(p)) = p

\* the keys of the entities the n-th source alone gives
ListKeys(files, n) ==
    LET alone == [f \in DOMAIN files |-> IF f = Sources[n].file THEN files[f] ELSE Absent]
    IN  {e.key : e \in Range(IndexSnapshot(alone).idx)}

\* a name of the entity normalizes to what the query normalizes to
ExactMatch(company_name, ent) ==
    \E n \in Range(ent.primary) \cup Range(ent.aliases) :
        Normalize(n) = Normalize(company_name) /\ Normalize(n) # <<>>

Hundred == Rat(100, 1)

\* C13: an entity of list S one of whose names normalizes to what the query
\* normalizes to (not empty) has best score 100; then, with review_threshold
\* <= 100 and at most top_k entities scoring 100, the hit list has a hit for
\* it whose source_list starts with the code of S and whose score is >= 95,
\* and the decision is BLOCK when block_threshold <= 100. A string that
\* normalizes to empty scores 0 against itself.
C13_ExactMatchCeiling ==
    /\ \A s \in ScreenQueries : Normalize(s) = <<>> => TokenSetSimilarity(s, s) = Zero
    /\ Returned =>
          \A n \in 1..Len(Sources) : \A i \in 1..Len(call.index) :
              (/\ call.index[i].key \in ListKeys(ScreenedFiles, n)
               /\ ExactMatch(call.company_name, call.index[i])) =>
                  /\ Bests[i] = Hundred
                  /\ (/\ call.review_threshold <= 100
                      /\ Cardinality({j \in DOMAIN Bests : Bests[j] = Hundred}) <= call.top_k) =>
                          /\ \E k \in 1..Len(call.hits) :
                                /\ call.hits[k].entity_id = call.index[i].entity_id
                                /\ call.hits[k].source_list = call.index[i].source_list
                                /\ StartsWith(call.hits[k].source_list, ListCode(Sources[n].kind))
                                /\ RGE(call.hits[k].best_score, Rat(95, 1))
                          /\ call.block_threshold <= 100 => call.decision = "BLOCK"

\* two entities of different sources match the query exactly, both are among
\* the hits and the call blocks
C13_Witness ==
    /\ Returned /\ call.decision = "BLOCK" /\ call.review_threshold = 90
    /\ \E i, j \in 1..Len(call.index) :
          /\ ExactMatch(call.company_name, call.index[i])
          /\ ExactMatch(call.company_name, call.index[j])
          /\ ~StartsWith(call.index[i].source_list, <<"O", "F", "A", "C">>)
          /\ StartsWith(call.index[j].source_list, <<"O", "F", "A", "C">>)
          /\ \E k, l \in 1..Len(call.hits) :
                /\ call.hits[k].source_list = call.index[i].source_list
                /\ call.hits[l].source_list = call.index[j].source_list

\* C14: the similarity is symmetric: the score screen_company gives a name
\* against the query is the score of the query against that name, for every
\* name of the index, and so is the score of every hit against its evidence.
C14_Symmetric ==
    Returned =>
        /\ \A i \in 1..Len(call.index) :
              \A n \in Range(call.index[i].primary) \cup Range(call.index[i].aliases) :
                  TokenSetSimilarity(call.company_name, n) = TokenSetSimilarity(n, call.company_name)
        /\ \A k \in 1..Len(call.hits) :
              call.hits[k].best_score =
                  TokenSetSimilarity(call.hits[k].best_evidence.matched_value, call.company_name)

RECURSIVE NamesFor(_, _)
\* the names of the rows of entity eid, in the order of the rows
NamesFor(rows, eid) ==
    IF rows = <<>> THEN <<>>
    ELSE (IF PickEntityId(Head(rows)) = eid /\ PickName(Head(rows)) # <<>>
          THEN <<PickName(Head(rows))>> ELSE <<>>)
         \o NamesFor(Tail(rows), eid)

\* texts in strictly ascending code order
Ascending(texts) == \A i \in 1..(Len(texts) - 1) : StrLess(texts[i], texts[i + 1])

\* C15: in every hit, primary_names and alias_names are the first min(5, n)
\* entries of the entity's primary and alias lists, which are in the order
\* the rows arrived; programs is the whole programme set in ascending order
\* without duplicates; addresses is the min(5, n) smallest addresses in
\* ascending order; no view but programs has more than 5 entries.
C15_HitViews ==
    Returned =>
        \A k \in 1..Len(call.hits) :
            LET h == call.hits[k]
                ent == call.index[EntityPos(h)]
            IN  /\ ent.primary = NamesFor(ScreenedFiles["CONS_PRIM.CSV"].rows, ent.entity_id)
                /\ ent.aliases = NamesFor(ScreenedFiles["CONS_ALT.CSV"].rows, ent.entity_id)
                /\ Len(h.primary_names) = Min(5, Len(ent.primary))
                /\ \A i \in 1..Len(h.primary_names) : h.primary_names[i] = ent.primary[i]
                /\ Len(h.alias_names) = Min(5, Len(ent.aliases))
                /\ \A i \in 1..Len(h.alias_names) : h.alias_names[i] = ent.aliases[i]
                /\ Range(h.programs) = ent.programs
                /\ Ascending(h.programs)
                /\ Len(h.addresses) = Min(5, Cardinality(ent.addresses))
                /\ Range(h.addresses) \subseteq ent.addresses
                /\ Ascending(h.addresses)
                /\ \A x \in ent.addresses \ Range(h.addresses) :
                      \A i \in 1..Len(h.addresses) : StrLess(h.addresses[i], x)

\* a hit for an entity with more than five primary names, aliases and
\* addresses and more than one programme
C15_Witness ==
    /\ Returned
    /\ \E k \in 1..Len(call.hits) :
          /\ Len(call.index[EntityPos(call.hits[k])].primary) > 5
          /\ Len(call.index[EntityPos(call.hits[k])].aliases) > 5
          /\ Cardinality(call.index[EntityPos(call.hits[k])].addresses) > 5
          /\ Len(call.hits[k].programs) > 2
          /\ Len(call.hits[k].primary_names) = 5
          /\ Len(call.hits[k].addresses) = 5

\* C16: snapshots are immutable. No step of any command (update_snapshot,
\* also one that computes an id already taken, screen_company, the screen
\* command, a return) removes a snapshot directory or changes its list files
\* or its manifest; an update either fails and leaves the directories as
\* they are or adds one directory under an id that was free.
C16_SnapshotsImmutable ==
    [][/\ \A d \in DOMAIN dirs :
            /\ d \in DOMAIN dirs'
            /\ dirs'[d].files = dirs[d].files
            /\ dirs'[d].manifest = dirs[d].manifest
       /\ call'.cmd = "update" =>
            \/ call'.raised # "" /\ dirs' = dirs
            \/ /\ call'.raised = ""
               /\ call'.snapshot_id[1] \notin DOMAIN dirs
               /\ DOMAIN dirs' = DOMAIN dirs \cup {call'.snapshot_id[1]}]_vars

\* an update computed the id of a snapshot that screen commands had logged
\* to, and failed
C16_Witness ==
    /\ call.cmd = "update" /\ call.raised = "FileExistsError"
    /\ Cardinality(DOMAIN dirs) = MaxSnapshots
    /\ \E d \in DOMAIN dirs : Len(dirs[d].audit) = MaxAudit

\* C17: a source whose parsing fails contributes nothing: the index a call
\* built from a snapshot with a file that failed to parse is the index of the
\* same snapshot without that file.
C17_FailedSourceEmpty ==
    Returned =>
        \A f \in FileNames :
            HasBad(ScreenedFiles[f].rows) =>
                call.index = IndexSnapshot([ScreenedFiles EXCEPT ![f] = Absent]).idx

Reverse(s) == [i \in 1..Len(s) |-> s[Len(s) + 1 - i]]

\* the snapshot with the rows of the files of F in the opposite order
ReversedIn(files, F) ==
    [f \in DOMAIN files |-> IF f \in F THEN FileOf(Reverse(files[f].rows)) ELSE files[f]]

\* the same keys and, for every key, the same programmes, addresses, primary
\* names and aliases, the name lists taken as sets
SameContents(a, b) ==
    /\ {a[i].key : i \in 1..Len(a)} = {b[j].key : j \in 1..Len(b)}
    /\ \A i \in 1..Len(a) : \A j \in 1..Len(b) :
          a[i].key = b[j].key =>
              /\ a[i].programs = b[j].programs
              /\ a[i].addresses = b[j].addresses
              /\ Range(a[i].primary) = Range(b[j].primary)
              /\ Range(a[i].aliases) = Range(b[j].aliases)

\* the files as they are when the first m rows of the n-th file read have
\* been handled
ArrivedFiles(files, n, m) ==
    [f \in DOMAIN files |->
        IF \E k \in 1..(n - 1) : Sources[k].file = f THEN files[f]
        ELSE IF Sources[n].file = f /\ files[f].exists
             THEN FileOf(Take(IF Sources[n].kind = "UN" THEN UnNodes(files[f].rows)
                              ELSE files[f].rows, m))
        ELSE Absent]

\* the first name of every name list of index early is the first name of the
\* list of the same entity in index late
FirstNamesKept(early, late) ==
    \A i \in 1..Len(early) : \A j \in 1..Len(late) :
        early[i].key = late[j].key =>
            /\ early[i].primary # <<>> => late[j].primary[1] = early[i].primary[1]
            /\ early[i].aliases # <<>> => late[j].aliases[1] = early[i].aliases[1]

Placeholder == <<"-", "0", "-">>

\* the placeholder is one of the comma-separated parts of address a
HasPlaceholderPart(a) ==
    \E i \in 1..Len(a) :
        /\ i + 2 <= Len(a)
        /\ SubSeq(a, i, i + 2) = Placeholder
        /\ (i = 1 \/ (i > 2 /\ SubSeq(a, i - 2, i - 1) = CommaSpace))
        /\ (i + 2 = Len(a) \/ (i + 4 <= Len(a) /\ SubSeq(a, i + 3, i + 4) = CommaSpace))

\* C19: no entity of the built index has the placeholder "-0-" as a primary
\* name, an alias, a programme or a part of an address.
C19_NoPlaceholder ==
    Returned =>
        \A i \in 1..Len(call.index) :
            /\ Placeholder \notin Range(call.index[i].primary)
            /\ Placeholder \notin Range(call.index[i].aliases)
            /\ Placeholder \notin call.index[i].programs
            /\ \A a \in call.index[i].addresses : ~HasPlaceholderPart(a)

\* the row has no identifier of its own
IdLess(kind, r) ==
    CASE kind = "CA" -> Strip(Cell(r.ids, 1)) = <<>>
      [] kind = "AU" -> IsNan(Strip(Cell(r.ids, 1))) /\ IsNan(Strip(Cell(r.ids, 2)))
      [] kind = "WB" -> IsNan(Strip(Cell(r.ids, 1)))
      [] OTHER -> FALSE

\* the positions of the entities of a source that are filed under a
\* pseudo-identifier and hold name as a primary name
PseudoEntities(index, kind, name) ==
    {i \in 1..Len(index) :
        /\ index[i].source_list = ListCode(kind)
        /\ StartsWith(index[i].entity_id, ListCode(kind) \o <<"-">>)
        /\ Len(index[i].entity_id) = Len(ListCode(kind)) + 9
        /\ name \in Range(index[i].primary)}

\* C20: a record of CA, AU or WB without an identifier is filed under the
\* source code, "-" and eight digits; two such records of one source are in
\* the same entity exactly when their names normalize to the same string.
C20_PseudoId ==
    (Returned /\ \A f \in FileNames : ~HasBad(ScreenedFiles[f].rows)) =>
        \A n \in 1..Len(Sources) :
            LET kind == Sources[n].kind
                rows == ScreenedFiles[Sources[n].file].rows
                named == {i \in 1..Len(rows) :
                             IdLess(kind, rows[i]) /\ ~IsNan(RowName(kind, rows[i]))}
            IN  \A i \in named : \A j \in named :
                    /\ Cardinality(PseudoEntities(call.index, kind, RowName(kind, rows[i]))) = 1
                    /\ (Normalize(RowName(kind, rows[i])) = Normalize(RowName(kind, rows[j])))
                           <=> (PseudoEntities(call.index, kind, RowName(kind, rows[i]))
                                    = PseudoEntities(call.index, kind, RowName(kind, rows[j])))

\* C21: the evidence of every returned hit is real: its matched value is one
\* of the entity's primary names when the field is "primary" and one of its
\* aliases when the field is "alias", the hit's score is the evidence's
\* score, and no hit carries the initial evidence (no matched value, score 0).
C21_EvidenceIsReal ==
    Returned =>
        \A k \in 1..Len(call.hits) :
            LET h == call.hits[k]
                ent == call.index[EntityPos(h)]
            IN  /\ h.best_evidence.field \in {"primary", "alias"}
                /\ h.best_evidence.field = "primary" =>
                      h.best_evidence.matched_value \in Range(ent.primary)
                /\ h.best_evidence.field = "alias" =>
                      h.best_evidence.matched_value \in Range(ent.aliases)
                /\ h.best_score = h.best_evidence.score
                /\ ~(h.best_evidence.matched_value = <<>> /\ h.best_evidence.score = Zero)

\* the snapshot directory is complete: its manifest, its audit file and every
\* file the manifest lists are there
Complete(d) ==
    /\ d.manifest # NoManifest
    /\ d.touched
    /\ \A f \in d.manifest.files : d.files[f].exists

\* C22: after any runs of update_snapshot, each of which may fail at any
\* write, LATEST is absent or names a snapshot directory that exists and is
\* complete; a run that raises leaves LATEST and the directories that were
\* there as they were, a run whose OFAC download fails makes no snapshot
\* directory, and LATEST changes only to the id a run returns, once its
\* directory is complete
C22_LatestComplete ==
    /\ [](latest # <<>> => latest[1] \in DOMAIN dirs /\ Complete(dirs[latest[1]]))
    /\ [][/\ call'.cmd = "update" /\ call'.raised # ""
               => /\ latest' = latest
                  /\ \A d \in DOMAIN dirs : d \in DOMAIN dirs' /\ dirs'[d] = dirs[d]
          /\ call'.cmd = "update" /\ call'.raised = "Exception" => dirs' = dirs
          /\ latest' # latest
               => /\ call'.cmd = "update" /\ call'.raised = ""
                  /\ latest' = call'.snapshot_id
                  /\ latest'[1] \notin DOMAIN dirs]_vars

\* the fields of the record a screen command logs, but for its timestamp
LoggedFields(res) ==
    [snapshot_id |-> res.snapshot_id[1],
     input |-> [company_name |-> res.company_name],
     thresholds |-> [review_threshold |-> res.review_threshold,
                     block_threshold |-> res.block_threshold],
     decision |-> res.decision, hits |-> res.hits]

\* the same fields of a record of the audit file
FieldsOf(rec) ==
    [snapshot_id |-> rec.snapshot_id, input |-> rec.input, thresholds |-> rec.thresholds,
     decision |-> rec.decision, hits |-> rec.hits]

\* every audit file that was there is there with the same records
AuditsKept(before, after) ==
    \A d \in DOMAIN before : d \in DOMAIN after /\ after[d].audit = before[d].audit

\* C23: a screen command whose screening completes appends exactly one record
\* (input, snapshot id, thresholds, decision, hits) to the end of the audit
\* file of the snapshot it screened, the earlier records staying as they were
\* and in order, and every other audit file staying as it was; a screen
\* command that fails appends nothing and returns exit code 1; no other step
\* changes an audit file
C23_AuditAppendOnly ==
    [][/\ call'.cmd = "screen" /\ call'.raised = ""
            => /\ call'.snapshot_id # <<>> /\ call'.snapshot_id[1] \in DOMAIN dirs
               /\ DOMAIN dirs' = DOMAIN dirs
               /\ \A d \in DOMAIN dirs :
                     IF d = call'.snapshot_id[1]
                     THEN /\ Len(dirs'[d].audit) = Len(dirs[d].audit) + 1
                          /\ SubSeq(dirs'[d].audit, 1, Len(dirs[d].audit)) = dirs[d].audit
                          /\ FieldsOf(dirs'[d].audit[Len(dirs'[d].audit)]) = LoggedFields(call')
                     ELSE dirs'[d].audit = dirs[d].audit
               /\ ExitCode(call') = 0
       /\ call'.cmd = "screen" /\ call'.raised # ""
            => /\ DOMAIN dirs' = DOMAIN dirs
               /\ AuditsKept(dirs, dirs')
               /\ ExitCode(call') = 1
       /\ call'.cmd # "screen" => AuditsKept(dirs, dirs')]_vars

\* a screen command has appended a second record, unlike the first, to the
\* audit file of the snapshot it screened, and another snapshot has a record
C23_Witness ==
    /\ call.cmd = "screen" /\ call.raised = ""
    /\ Len(dirs[call.snapshot_id[1]].audit) = MaxAudit
    /\ dirs[call.snapshot_id[1]].audit[1] # dirs[call.snapshot_id[1]].audit[MaxAudit]
    /\ FieldsOf(dirs[call.snapshot_id[1]].audit[MaxAudit]) = LoggedFields(call)
    /\ \E d \in DOMAIN dirs : d # call.snapshot_id[1] /\ dirs[d].audit # <<>>

====
